---- MODULE Spec2Model ----
(***************************************************************************)
(* Adiabatically Assisted VQE example (examples/aavqe/main.py).            *)
(*                                                                         *)
(* Operators are square integer matrices, stored as functions              *)
(* [0..d-1 -> [0..d-1 -> Int]].  The interpolation fraction s = t/T_max is *)
(* kept as an exact fraction, and an interpolated Hamiltonian is kept as   *)
(* an integer numerator matrix over the denominator T_max.                 *)
(***************************************************************************)
EXTENDS Integers, Sequences, FiniteSets, TLC

\* ----------------------------------------------------------------- bounds
MaxQubits == 4
MaxLayers == 2
MaxTmax == 2
MaxNegTmax == 1
MaxLambda == 1
MaxParamValue == 1
MaxEnergy == 1
MaxAnsatzQubits == 5
MaxAnsatzLayers == 3
MaxLenOffset == 1
MaxQubitOffset == 1
MaxCallerQubits == 2

VARIABLES
    nqubits,             \* AAVQE argument / main argument
    layers,              \* AAVQE argument / main argument
    T_max,               \* AAVQE argument / main argument
    lamb,                \* ising argument
    easy_qubits,         \* qubit count the easy Hamiltonian is built for
    problem_qubits,      \* qubit count the problem Hamiltonian is built for
    easy_hamiltonian,    \* None or [nqubits, hamiltonian]
    problem_hamiltonian, \* None or [nqubits, hamiltonian]
    circuit,             \* sequence of gates added so far
    l,                   \* index of the layer loop
    t,                   \* index of the adiabatic loop
    s,                   \* None or the fraction [num, den] of this step
    hamiltonian,         \* None or the interpolated [nqubits, num, den]
    main_initial_parameters, \* the caller's vector, passed to AAVQE
    initial_parameters,  \* AAVQE's name for the vector the next step starts from
    energy,              \* None or the energy of the last minimization
    params,              \* None or the vector of the last minimization
    calls,               \* log of the minimizer invocations: their [t, s]
    last_call,           \* None or the last invocation, with what it was
                         \* given and what it returned
    result,              \* None or the returned [energy, params]
    error,               \* "none" or the exception that ended the run
    pc                   \* position in main / AAVQE

vars == <<nqubits, layers, T_max, lamb, easy_qubits, problem_qubits,
          easy_hamiltonian, problem_hamiltonian, circuit, l, t, s,
          hamiltonian, main_initial_parameters, initial_parameters, energy,
          params, calls, last_call, result, error, pc>>

\* an unset name holds None, a set one holds Some(value)
None == <<>>

Some(x) == <<x>>

Value(o) == o[1]

\* ------------------------------------------------------ matrix arithmetic
Dim(A) == Cardinality(DOMAIN A)

Scalar(k) == [r \in 0..0 |-> [c \in 0..0 |-> k]]

matrices_I == (0 :> (0 :> 1 @@ 1 :> 0)) @@ (1 :> (0 :> 0 @@ 1 :> 1))

matrices_Z == (0 :> (0 :> 1 @@ 1 :> 0)) @@ (1 :> (0 :> 0 @@ 1 :> (0 - 1)))

matrices_X == (0 :> (0 :> 0 @@ 1 :> 1)) @@ (1 :> (0 :> 1 @@ 1 :> 0))

np_kron(A, B) ==
    LET da == Dim(A)
        db == Dim(B)
    IN  [r \in 0..(da * db - 1) |->
            [c \in 0..(da * db - 1) |->
                A[r \div db][c \div db] * B[r % db][c % db]]]

MatAdd(A, B) == [r \in DOMAIN A |-> [c \in DOMAIN A |-> A[r][c] + B[r][c]]]

MatScale(k, A) == [r \in DOMAIN A |-> [c \in DOMAIN A |-> k * A[r][c]]]

RECURSIVE SumFrom(_, _)
SumFrom(acc, terms) ==
    IF terms = <<>> THEN acc
    ELSE SumFrom(MatAdd(acc, Head(terms)), Tail(terms))

\* Python's sum(): 0 + first term broadcasts the scalar 0 over the term
py_sum(terms) == SumFrom(MatScale(0, Head(terms)), terms)

\* ------------------------------------------------------------- multikron
RECURSIVE multikron_loop(_, _)
multikron_loop(h, ms) ==
    IF ms = <<>> THEN h
    ELSE multikron_loop(np_kron(h, Head(ms)), Tail(ms))

multikron(ms) == multikron_loop(Scalar(1), ms)

\* -------------------------------------------------------- sz_hamiltonian
\* the sum without its leading minus sign
sz_hamiltonian_NoMinus(n) ==
    [nqubits |-> n,
     hamiltonian |->
        py_sum([i1 \in 1..n |->
            multikron([j1 \in 1..n |->
                IF (i1 - 1) = (j1 - 1) % n
                THEN matrices_Z ELSE matrices_I])])]

sz_hamiltonian(n) ==
    [nqubits |-> n,
     hamiltonian |->
        MatScale(0 - 1,
            py_sum([i1 \in 1..n |->
                multikron([j1 \in 1..n |->
                    IF (i1 - 1) = (j1 - 1) % n
                    THEN matrices_Z ELSE matrices_I])]))]

\* ------------------------------------------------------------------ ising
\* the coupling without the wrap-around of j + 1
ising_OpenChain(n, lam) ==
    [nqubits |-> n,
     hamiltonian |->
        MatAdd(
            py_sum([i1 \in 1..n |->
                multikron([j1 \in 1..n |->
                    IF (i1 - 1) \in {(j1 - 1) % n, (j1 - 1) + 1}
                    THEN matrices_Z ELSE matrices_I])]),
            MatScale(lam,
                py_sum([i1 \in 1..n |->
                    multikron([j1 \in 1..n |->
                        IF (i1 - 1) = (j1 - 1) % n
                        THEN matrices_X ELSE matrices_I])])))]

ising(n, lam) ==
    [nqubits |-> n,
     hamiltonian |->
        MatAdd(
            py_sum([i1 \in 1..n |->
                multikron([j1 \in 1..n |->
                    IF (i1 - 1) \in {(j1 - 1) % n, ((j1 - 1) + 1) % n}
                    THEN matrices_Z ELSE matrices_I])]),
            MatScale(lam,
                py_sum([i1 \in 1..n |->
                    multikron([j1 \in 1..n |->
                        IF (i1 - 1) = (j1 - 1) % n
                        THEN matrices_X ELSE matrices_I])])))]

\* ------------------------------------------------------- Python helpers
\* range(a, b, step) for step > 0, as the sequence of its values
py_range(a, b, step) ==
    [k \in 1..(IF b > a THEN (b - a + step - 1) \div step ELSE 0) |->
        a + (k - 1) * step]

np_zeros(n) == [k \in 1..n |-> 0]

\* ------------------------------------------------------------------ gates
\* every gate is a record of the arguments its constructor is called with
gates_CZ(q0, q1) ==
    [gate |-> "CZ", qubits |-> <<q0, q1>>, pairs |-> <<>>,
     params |-> <<>>, params2 |-> <<>>]

gates_RY(q, theta) ==
    [gate |-> "RY", qubits |-> <<q>>, pairs |-> <<>>,
     params |-> <<theta>>, params2 |-> <<>>]

gates_VariationalLayer(qubits, prs, p1, p2) ==
    [gate |-> "VariationalLayer", qubits |-> qubits, pairs |-> prs,
     params |-> p1, params2 |-> p2]

\* number of rotation angles the gates of a circuit carry
RECURSIVE TrainableSlots(_)
TrainableSlots(circ) ==
    IF circ = <<>> THEN 0
    ELSE Len(Head(circ).params) + Len(Head(circ).params2)
         + TrainableSlots(Tail(circ))

\* ----------------------------------------------------- AAVQE: the ansatz
pairs(n) ==
    LET rng == py_range(0, n - 1, 2)
    IN  [k \in DOMAIN rng |-> <<rng[k], rng[k] + 1>>]

\* a layer with a single rotation round
VariationalGates_OneRound(n) ==
    <<gates_VariationalLayer(py_range(0, n, 1), pairs(n),
                             np_zeros(n), <<>>)>>

VariationalGates(n) ==
    <<gates_VariationalLayer(py_range(0, n, 1), pairs(n),
                             np_zeros(n), np_zeros(n))>>

OddCZGates(n) ==
    LET rng == py_range(1, n - 2, 2)
    IN  [k \in DOMAIN rng |-> gates_CZ(rng[k], rng[k] + 1)]

ClosingCZGates(n) == <<gates_CZ(0, n - 1)>>

\* no closing rotation layer
RotationGates_None(n) == <<>>

RotationGates(n) ==
    LET rng == py_range(0, n, 1)
    IN  [k \in DOMAIN rng |-> gates_RY(rng[k], 0)]

\* ------------------------------------------------- AAVQE: the scheduler
\* the for statement takes another value of range(T_max + 1)
ForHasNext_OffByOne(i, T) == i < T

ForHasNext(i, T) == i < T + 1

\* s = t / T_max, an exact fraction; division by zero raises
Divide_NoRaise(i, T) ==
    IF T = 0 THEN [raised |-> "none", num |-> 0, den |-> 1]
    ELSE [raised |-> "none", num |-> i, den |-> T]

Divide(i, T) ==
    IF T = 0 THEN [raised |-> "ZeroDivisionError", num |-> 0, den |-> 0]
    ELSE [raised |-> "none", num |-> i, den |-> T]

\* (1 - s) * easy + s * problem over the common denominator s.den
Interpolate_Swapped(f, easy, problem) ==
    [nqubits |-> easy.nqubits,
     num |-> MatAdd(MatScale(f.num, easy.hamiltonian),
                    MatScale(f.den - f.num, problem.hamiltonian)),
     den |-> f.den]

Interpolate(f, easy, problem) ==
    [nqubits |-> easy.nqubits,
     num |-> MatAdd(MatScale(f.den - f.num, easy.hamiltonian),
                    MatScale(f.num, problem.hamiltonian)),
     den |-> f.den]

\* Hamiltonians over different qubit counts cannot be added
AddRejects(easy, problem) == easy.nqubits # problem.nqubits

\* the minimizer refuses a parameter vector or a Hamiltonian that does not
\* fit the circuit
MinimizeRejects(n, circ, ham, p) ==
    \/ Len(p) # TrainableSlots(circ)
    \/ ham.nqubits # n

ParamValues == 0..MaxParamValue

Energies == 0..MaxEnergy

\* what vqe.minimize may return for a start vector p
MinimizeResults(p) ==
    {[energy |-> e, params |-> [k \in DOMAIN p |-> v]] :
        e \in Energies, v \in ParamValues}

\* initial_parameters = params
WarmStart_Cold(p, initial) == initial

WarmStart(p, initial) == p

\* ------------------------------------------------------------------ main
nparams(n, L) == 2 * n * L + n

Lambdas == 0..MaxLambda

TmaxValues == (0 - MaxNegTmax)..MaxTmax

QubitsNear(n) ==
    {q \in (n - MaxQubitOffset)..(n + MaxQubitOffset) : q >= 1}

InitCommon ==
    /\ easy_hamiltonian = None /\ problem_hamiltonian = None
    /\ circuit = <<>> /\ l = 0 /\ t = 0 /\ s = None /\ hamiltonian = None
    /\ energy = None /\ params = None
    /\ calls = <<>> /\ last_call = None /\ result = None /\ error = "none"

\* main(nqubits, layers, maxsteps, T_max)
Init ==
    /\ nqubits \in 1..MaxQubits
    /\ layers \in 1..MaxLayers
    /\ T_max \in TmaxValues
    /\ lamb \in Lambdas
    /\ easy_qubits = nqubits /\ problem_qubits = nqubits
    /\ main_initial_parameters = [k \in 1..nparams(nqubits, layers) |-> 0]
    /\ initial_parameters = main_initial_parameters
    /\ InitCommon
    /\ pc = "build_easy"

\* AAVQE called by any other caller, whose arguments need not fit
InitCaller ==
    /\ nqubits \in 1..MaxCallerQubits
    /\ layers \in 1..MaxLayers
    /\ T_max \in TmaxValues
    /\ lamb = 1
    /\ easy_qubits \in QubitsNear(nqubits)
    /\ problem_qubits \in QubitsNear(nqubits)
    /\ \E d \in (0 - MaxLenOffset)..MaxLenOffset :
         main_initial_parameters =
             [k \in 1..(nparams(nqubits, layers) + d) |-> 0]
    /\ initial_parameters = main_initial_parameters
    /\ InitCommon
    /\ pc = "build_easy"

\* the ansatz construction alone, for larger registers
InitAnsatz ==
    /\ nqubits \in 1..MaxAnsatzQubits
    /\ layers \in 1..MaxAnsatzLayers
    /\ T_max = 1
    /\ lamb = 1
    /\ easy_qubits = nqubits /\ problem_qubits = nqubits
    /\ main_initial_parameters = [k \in 1..nparams(nqubits, layers) |-> 0]
    /\ initial_parameters = main_initial_parameters
    /\ InitCommon
    /\ pc = "add_variational"

BuildEasy ==
    /\ pc = "build_easy"
    /\ easy_hamiltonian' = Some(sz_hamiltonian(easy_qubits))
    /\ pc' = "build_problem"
    /\ UNCHANGED <<nqubits, layers, T_max, lamb, easy_qubits, problem_qubits,
                   main_initial_parameters, last_call,
                   problem_hamiltonian, circuit, l, t, s, hamiltonian,
                   initial_parameters, energy, params, calls, result, error>>

BuildProblem ==
    /\ pc = "build_problem"
    /\ problem_hamiltonian' = Some(ising(problem_qubits, lamb))
    /\ pc' = "add_variational"
    /\ UNCHANGED <<nqubits, layers, T_max, lamb, easy_qubits, problem_qubits,
                   main_initial_parameters, last_call,
                   easy_hamiltonian, circuit, l, t, s, hamiltonian,
                   initial_parameters, energy, params, calls, result, error>>

AddVariationalLayer ==
    /\ pc = "add_variational"
    /\ l < layers
    /\ circuit' = circuit \o VariationalGates(nqubits)
    /\ pc' = "add_odd"
    /\ UNCHANGED <<nqubits, layers, T_max, lamb, easy_qubits, problem_qubits,
                   main_initial_parameters, last_call,
                   easy_hamiltonian, problem_hamiltonian, l, t, s,
                   hamiltonian, initial_parameters, energy, params, calls,
                   result, error>>

AddOddCZ ==
    /\ pc = "add_odd"
    /\ circuit' = circuit \o OddCZGates(nqubits)
    /\ pc' = "add_closing"
    /\ UNCHANGED <<nqubits, layers, T_max, lamb, easy_qubits, problem_qubits,
                   main_initial_parameters, last_call,
                   easy_hamiltonian, problem_hamiltonian, l, t, s,
                   hamiltonian, initial_parameters, energy, params, calls,
                   result, error>>

AddClosingCZ ==
    /\ pc = "add_closing"
    /\ circuit' = circuit \o ClosingCZGates(nqubits)
    /\ l' = l + 1
    /\ pc' = IF l + 1 < layers THEN "add_variational" ELSE "add_rotations"
    /\ UNCHANGED <<nqubits, layers, T_max, lamb, easy_qubits, problem_qubits,
                   main_initial_parameters, last_call,
                   easy_hamiltonian, problem_hamiltonian, t, s, hamiltonian,
                   initial_parameters, energy, params, calls, result, error>>

AddRotations ==
    /\ pc = "add_rotations"
    /\ circuit' = circuit \o RotationGates(nqubits)
    /\ pc' = "for"
    /\ UNCHANGED <<nqubits, layers, T_max, lamb, easy_qubits, problem_qubits,
                   main_initial_parameters, last_call,
                   easy_hamiltonian, problem_hamiltonian, l, t, s,
                   hamiltonian, initial_parameters, energy, params, calls,
                   result, error>>

For ==
    /\ pc = "for"
    /\ pc' = IF ForHasNext(t, T_max) THEN "body" ELSE "return"
    /\ UNCHANGED <<nqubits, layers, T_max, lamb, easy_qubits, problem_qubits,
                   main_initial_parameters, last_call,
                   easy_hamiltonian, problem_hamiltonian, circuit, l, t, s,
                   hamiltonian, initial_parameters, energy, params, calls,
                   result, error>>

Body ==
    /\ pc = "body"
    /\ LET f == Divide(t, T_max)
           easy == Value(easy_hamiltonian)
           problem == Value(problem_hamiltonian)
       IN  IF f.raised # "none"
           THEN /\ error' = f.raised
                /\ pc' = "done"
                /\ UNCHANGED <<s, hamiltonian>>
           ELSE IF AddRejects(easy, problem)
           THEN /\ error' = "ValueError"
                /\ pc' = "done"
                /\ s' = Some([num |-> f.num, den |-> f.den])
                /\ UNCHANGED hamiltonian
           ELSE /\ s' = Some([num |-> f.num, den |-> f.den])
                /\ hamiltonian' = Some(Interpolate(f, easy, problem))
                /\ pc' = "minimize"
                /\ UNCHANGED error
    /\ UNCHANGED <<nqubits, layers, T_max, lamb, easy_qubits, problem_qubits,
                   main_initial_parameters, last_call,
                   easy_hamiltonian, problem_hamiltonian, circuit, l, t,
                   initial_parameters, energy, params, calls, result>>

Minimize ==
    /\ pc = "minimize"
    /\ IF MinimizeRejects(nqubits, circuit, Value(hamiltonian),
                          initial_parameters)
       THEN /\ error' = "ValueError"
            /\ pc' = "done"
            /\ UNCHANGED <<t, initial_parameters, energy, params, calls,
                           last_call>>
       ELSE \E r \in MinimizeResults(initial_parameters) :
            /\ energy' = Some(r.energy)
            /\ params' = Some(r.params)
            /\ initial_parameters' = WarmStart(r.params, initial_parameters)
            /\ calls' = Append(calls, [t |-> t, s |-> Value(s)])
            /\ last_call' = Some([t |-> t, s |-> Value(s),
                                  start |-> initial_parameters,
                                  energy |-> r.energy, params |-> r.params])
            /\ t' = t + 1
            /\ pc' = "for"
            /\ UNCHANGED error
    /\ UNCHANGED <<nqubits, layers, T_max, lamb, easy_qubits, problem_qubits,
                   main_initial_parameters,
                   easy_hamiltonian, problem_hamiltonian, circuit, l, s,
                   hamiltonian, result>>

Return ==
    /\ pc = "return"
    /\ IF energy = None \/ params = None
       THEN /\ error' = "UnboundLocalError"
            /\ UNCHANGED result
       ELSE /\ result' = Some([energy |-> Value(energy),
                              params |-> Value(params)])
            /\ UNCHANGED error
    /\ pc' = "done"
    /\ UNCHANGED <<nqubits, layers, T_max, lamb, easy_qubits, problem_qubits,
                   main_initial_parameters, last_call,
                   easy_hamiltonian, problem_hamiltonian, circuit, l, t, s,
                   hamiltonian, initial_parameters, energy, params, calls>>

Next ==
    \/ BuildEasy
    \/ BuildProblem
    \/ AddVariationalLayer
    \/ AddOddCZ
    \/ AddClosingCZ
    \/ AddRotations
    \/ For
    \/ Body
    \/ Minimize
    \/ Return

NextAnsatz ==
    \/ AddVariationalLayer
    \/ AddOddCZ
    \/ AddClosingCZ
    \/ AddRotations

Spec == Init /\ [][Next]_vars

SpecCaller == InitCaller /\ [][Next]_vars

SpecAnsatz == InitAnsatz /\ [][NextAnsatz]_vars

\* ================================================================ claims

\* --------------------------------------------------------------- helpers
Easy == Value(easy_hamiltonian).hamiltonian

Problem == Value(problem_hamiltonian).hamiltonian

Built == pc \notin {"build_easy", "build_problem"}

CircuitBuilt == pc \in {"for", "body", "minimize", "return", "done"}

\* bit of basis index r at qubit position q (position 0 is the leftmost
\* factor of the tensor product, the most significant bit)
Bit(r, q, n) == (r \div (2 ^ (n - 1 - q))) % 2

\* eigenvalue of Z at position q on basis state r
ZVal(r, q, n) == 1 - 2 * Bit(r, q, n)

\* sum of the Z eigenvalues of basis state r over the positions in S
RECURSIVE ZSum(_, _, _)
ZSum(S, r, n) ==
    IF S = {} THEN 0
    ELSE LET q == CHOOSE y \in S : TRUE
         IN  ZVal(r, q, n) + ZSum(S \ {q}, r, n)

\* sum over the edges {a, b} in S of the eigenvalue of Z_a Z_b on r
RECURSIVE EdgeSum(_, _, _)
EdgeSum(S, r, n) ==
    IF S = {} THEN 0
    ELSE LET e == CHOOSE y \in S : TRUE
             a == CHOOSE x \in e : TRUE
             b == CHOOSE x \in e : x # a
         IN  ZVal(r, a, n) * ZVal(r, b, n) + EdgeSum(S \ {e}, r, n)

\* the nearest-neighbour edges of a ring of n sites, each once
RingEdges(n) == {{q, (q + 1) % n} : q \in 0..(n - 1)}

\* sum over the ring edges {a, b} of Z_a Z_b, a diagonal operator
RingCoupling(n) ==
    [r \in 0..(2 ^ n - 1) |-> [c \in 0..(2 ^ n - 1) |->
        IF r # c THEN 0 ELSE EdgeSum(RingEdges(n), r, n)]]

\* sum over the sites q of X_q: 1 where r and c differ in exactly one bit
TransverseField(n) ==
    [r \in 0..(2 ^ n - 1) |-> [c \in 0..(2 ^ n - 1) |->
        Cardinality({q \in 0..(n - 1) :
            /\ Bit(r, q, n) # Bit(c, q, n)
            /\ \A q2 \in 0..(n - 1) :
                 q2 # q => Bit(r, q2, n) = Bit(c, q2, n)})]]

\* -------------------------------------------------------------------- C1
\* number of statements a run of AAVQE still has to execute
Remaining ==
    LET ansatz ==
            CASE pc = "add_variational" -> 3 * (layers - l) + 1
              [] pc = "add_odd" -> 3 * (layers - l)
              [] pc = "add_closing" -> 3 * (layers - l) - 1
              [] pc = "add_rotations" -> 1
              [] OTHER -> 0
        loop ==
            CASE pc = "for" -> 3 * (T_max + 1 - t) + 2
              [] pc = "body" -> 3 * (T_max + 1 - t) + 1
              [] pc = "minimize" -> 3 * (T_max + 1 - t)
              [] pc = "return" -> 1
              [] pc = "done" -> 0
              [] OTHER -> 3 * (T_max + 1) + 2
    IN  ansatz + loop

C1_Inv ==
    (T_max >= 1 /\ Built) =>
        /\ Remaining >= 0
        /\ pc # "done" => ENABLED Next
        /\ Len(calls) <= T_max + 1
        /\ \A k \in DOMAIN calls :
             /\ calls[k].t = k - 1
             /\ calls[k].s = [num |-> k - 1, den |-> T_max]
        /\ pc = "minimize" => t = Len(calls)
        /\ last_call # None =>
             /\ calls # <<>>
             /\ Value(last_call).t = calls[Len(calls)].t
             /\ Value(last_call).s = calls[Len(calls)].s
        /\ pc = "done" =>
             /\ error = "none"
             /\ Len(calls) = T_max + 1
             /\ Value(last_call).t = T_max
             /\ result = Some([energy |-> Value(last_call).energy,
                               params |-> Value(last_call).params])
        /\ pc # "done" => result = None

\* C1: for T_max >= 1 a run invokes the minimizer exactly T_max + 1 times,
\* for t = 0, 1, ..., T_max in this order with s = t / T_max, then
\* terminates (it can always take a step until it is done, and every step
\* lowers the number of statements left) and returns the (energy,
\* parameters) of the invocation at t = T_max.
C1_Schedule ==
    [] C1_Inv /\ [][(T_max >= 1 /\ Built) => Remaining' < Remaining]_vars

C1_Witness ==
    /\ pc = "done"
    /\ T_max >= 2
    /\ Len(calls) = T_max + 1
    /\ result # None

\* -------------------------------------------------------------------- C2
\* C2: the vector passed to the minimizer at step 0 is the caller's, and
\* the vector passed at step t + 1 is the one the minimizer returned at
\* step t.
C2_WarmStart ==
    /\ [] (pc = "minimize" =>
             initial_parameters =
                 IF t = 0 THEN main_initial_parameters
                 ELSE Value(last_call).params)
    /\ [][calls' # calls =>
             /\ Value(last_call').t = t
             /\ Value(last_call').start =
                    IF t = 0 THEN main_initial_parameters
                    ELSE Value(last_call).params
             /\ t > 0 => Value(last_call).t = t - 1]_vars

C2_Witness ==
    /\ Len(calls) >= 2
    /\ Value(last_call).start # main_initial_parameters
    /\ Value(last_call).params # Value(last_call).start

C4_Interpolation ==
    (T_max >= 1 /\ pc = "minimize") =>
        LET h == Value(hamiltonian)
            d == 0..(2 ^ nqubits - 1)
        IN  /\ Value(s) = [num |-> t, den |-> T_max]
            /\ h.den = T_max
            /\ DOMAIN h.num = d
            /\ \A r \in d, c \in d :
                 /\ h.num[r][c] =
                        (T_max - t) * Easy[r][c] + t * Problem[r][c]
                 /\ t = 0 => h.num[r][c] = h.den * Easy[r][c]
                 /\ t = T_max => h.num[r][c] = h.den * Problem[r][c]
            /\ Value(easy_hamiltonian) = sz_hamiltonian(nqubits)
            /\ Value(problem_hamiltonian) = ising(nqubits, lamb)

C4_Witness ==
    /\ pc = "minimize"
    /\ T_max >= 2
    /\ t = T_max
    /\ Value(hamiltonian).num = MatScale(T_max, Problem)
    /\ Problem # Easy

\* -------------------------------------------------------------------- C5
\* C5: the ansatz has layers variational layers, each carrying two
\* rotation rounds over all nqubits qubits, and nqubits closing
\* rotations: 2 * nqubits * layers + nqubits rotation slots, the length of
\* the vector main generates.
C5_ParameterCount ==
    CircuitBuilt =>
        LET var == {k \in DOMAIN circuit :
                        circuit[k].gate = "VariationalLayer"}
            ry == {k \in DOMAIN circuit : circuit[k].gate = "RY"}
        IN  /\ Cardinality(var) = layers
            /\ \A k \in var : /\ Len(circuit[k].params) = nqubits
                              /\ Len(circuit[k].params2) = nqubits
            /\ Cardinality(ry) = nqubits
            /\ \A k \in ry : k > Len(circuit) - nqubits
            /\ TrainableSlots(circuit) = 2 * nqubits * layers + nqubits
            /\ TrainableSlots(circuit) = Len(main_initial_parameters)

C5_Witness ==
    /\ CircuitBuilt
    /\ nqubits >= 4
    /\ layers >= 2
    /\ TrainableSlots(circuit) = 2 * nqubits * layers + nqubits

\* -------------------------------------------------------------------- C6
\* C6: sz_hamiltonian(n) is the Hermitian operator -sum_i Z_i; it is
\* diagonal, its least eigenvalue is -n, and that is the diagonal entry of
\* basis state 0.
C6_Reference ==
    pc = "build_problem" =>
        LET n == easy_qubits
            d == 0..(2 ^ n - 1)
            Z(r) == ZSum(0..(n - 1), r, n)
        IN  /\ Value(easy_hamiltonian).nqubits = n
            /\ DOMAIN Easy = d
            /\ \A r \in d, c \in d :
                 /\ Easy[r][c] = Easy[c][r]
                 /\ Easy[r][c] = IF r = c THEN 0 - Z(r) ELSE 0
            /\ \A r \in d : Easy[r][r] >= 0 - n
            /\ Easy[0][0] = 0 - n
            /\ \A r \in d : Easy[r][r] = 0 - n => r = 0

C6_Witness ==
    /\ pc = "build_problem"
    /\ easy_qubits >= 2
    /\ Easy[0][0] = 0 - easy_qubits

\* -------------------------------------------------------------------- C7
\* C7: for n >= 3, ising(n, lamb) is the ring coupling, every ring edge
\* once, plus lamb times the transverse field; with lamb = 0 it is the
\* coupling alone, and ising(n, -lamb) differs in the sign of the field
\* term only.
C7_Ising ==
    (pc = "add_variational" /\ circuit = <<>> /\ problem_qubits >= 3) =>
        LET n == problem_qubits
            d == 0..(2 ^ n - 1)
            neg == ising(n, 0 - lamb).hamiltonian
            zero == ising(n, 0).hamiltonian
            J == RingCoupling(n)
            X == TransverseField(n)
        IN  /\ Cardinality(RingEdges(n)) = n
            /\ DOMAIN Problem = d
            /\ \A r \in d, c \in d :
                 /\ Problem[r][c] = J[r][c] + lamb * X[r][c]
                 /\ zero[r][c] = J[r][c]
                 /\ lamb = 0 => Problem[r][c] = J[r][c]
                 /\ neg[r][c] = J[r][c] - lamb * X[r][c]
                 /\ neg[r][c] - zero[r][c] = 0 - (Problem[r][c] - zero[r][c])

C7_Witness ==
    /\ pc = "add_variational"
    /\ circuit = <<>>
    /\ problem_qubits >= 4
    /\ lamb > 0
    /\ Problem = MatAdd(RingCoupling(problem_qubits),
                        MatScale(lamb, TransverseField(problem_qubits)))

\* -------------------------------------------------------------------- C8
Mismatch ==
    \/ Len(main_initial_parameters) # 2 * nqubits * layers + nqubits
    \/ 2 ^ easy_qubits # 2 ^ nqubits
    \/ 2 ^ problem_qubits # 2 ^ nqubits

LayerEnd(circ, k) ==
    LET later == {j \in DOMAIN circ :
                     j > k /\ circ[j].gate \in {"VariationalLayer", "RY"}}
    IN  IF later = {} THEN Len(circ) + 1
        ELSE CHOOSE j \in later : \A j2 \in later : j <= j2

\* the CZ gates of the layer that starts at index k: those of the
\* variational layer's pairs, then the CZ gates added after it
EntanglingPairs(circ, k) ==
    circ[k].pairs \o
    [j \in 1..(LayerEnd(circ, k) - 1 - k) |-> circ[k + j].qubits]

LayerStarts(circ) ==
    {k \in DOMAIN circ : circ[k].gate = "VariationalLayer"}

\* C9: for nqubits >= 4 the CZ gates of every layer form the closed ring:
\* every edge {i, (i + 1) mod n} is entangled exactly once and no other
\* pair is.
C9_ClosedRing ==
    (CircuitBuilt /\ nqubits >= 4) =>
        \A k \in LayerStarts(circuit) :
            LET e == EntanglingPairs(circuit, k)
            IN  /\ \A q \in 0..(nqubits - 1) :
                     Cardinality({j \in DOMAIN e :
                         {e[j][1], e[j][2]} = {q, (q + 1) % nqubits}}) = 1
                /\ \A j \in DOMAIN e :
                     {e[j][1], e[j][2]} \in RingEdges(nqubits)

\* ------------------------------------------------------------------- C10
\* C10: for nqubits < 4 the ansatz is built without error from the gates
\* the ranges range(0, n-1, 2) and range(1, n-2, 2) and the closing gate
\* (0, n-1) produce, and every CZ gate acts on two distinct qubits of
\* 0..n-1.
C10_SmallRegisters ==
    (CircuitBuilt /\ nqubits < 4) =>
        /\ error = "none"
        /\ Cardinality(LayerStarts(circuit)) = layers
        /\ \A k \in LayerStarts(circuit) :
             LET e == EntanglingPairs(circuit, k)
                 n == nqubits
                 even == {q \in 0..(n - 2) : q % 2 = 0}
                 odd == {q \in 1..(n - 3) : q % 2 = 1}
             IN  /\ Len(e) = Cardinality(even) + Cardinality(odd) + 1
                 /\ \A q \in even : \E j \in DOMAIN e : e[j] = <<q, q + 1>>
                 /\ \A q \in odd : \E j \in DOMAIN e : e[j] = <<q, q + 1>>
                 /\ e[Len(e)] = <<0, n - 1>>
                 /\ \A j \in DOMAIN e :
                      /\ e[j][1] \in 0..(n - 1)
                      /\ e[j][2] \in 0..(n - 1)
                      /\ e[j][1] # e[j][2]
====
